---- MODULE Spec2Model ----
(***************************************************************************)
(* State-machine model of scripts/cli/pack.py (AdapterPackCommand).        *)
(*                                                                         *)
(* Conventions.                                                            *)
(*  - A Python str is a sequence of tokens; each of the separator          *)
(*    characters "/", "-", "_" and "." is a token of its own and every     *)
(*    other token is a maximal run of other characters, so that            *)
(*    str.replace("/", "-") and "_".join(...) act token by token.          *)
(*  - A document (dict / YAML mapping) is a function from keys to values.  *)
(*    A value is a record: [v |-> str] for a scalar, [b |-> bool],         *)
(*    [list |-> seq], or a nested mapping given as a record.               *)
(*  - None is the string "None"; a raised exception is named by the        *)
(*    string of its class, "" meaning that nothing was raised.             *)
(***************************************************************************)
EXTENDS Integers, Sequences, FiniteSets, TLC

VARIABLES
    pc,                   \* position in run / pack_adapters_interactive
    input_paths,          \* self.input_paths
    extract_from_models,  \* self.extract_from_models
    diskAdapters,         \* directories holding ADAPTER_WEIGHTS_NAME
    models_list,          \* run: models_list
    adapters_list,        \* run: adapters_list
    mode,                 \* run: answers["mode"]
    mi,                   \* run: models of models_list already extracted
    template,             \* self.template
    template_file,        \* pack_adapters_interactive: template_file
    outDir,               \* what is at save_root on disk
    metadata,             \* pack_adapters_interactive: metadata
    url_template,         \* pack_adapters_interactive: url_template
    folders,              \* pack_adapters_interactive: folders
    i,                    \* loop of line 305: iterations completed
    zips,                 \* save_root: name |-> bytes of <name>.zip
    yamls,                \* save_root: name |-> document of <name>.yaml
    log,                  \* what has been printed
    written,              \* history: what each pack_adapter call did
    input_cache           \* self._input_cache.get("model_name", "")

vars == <<pc, input_paths, extract_from_models, diskAdapters, models_list,
          adapters_list, mode, mi, template, template_file, outDir, metadata,
          url_template, folders, i, zips, yamls, log, written, input_cache>>

scanVars == <<input_paths, extract_from_models, diskAdapters, models_list,
              adapters_list, mode, mi>>

packVars == <<template, template_file, outDir, metadata, url_template, i,
              zips, yamls, log, written, input_cache>>

-----------------------------------------------------------------------------
(* Bounds *)

MaxRoots == 2

MaxFolders == 2

-----------------------------------------------------------------------------
(* Values and documents *)

S(str) == [v |-> str]

EmptyDoc == [k \in {} |-> S(<<>>)]

Put(doc, k, val) == [x \in (DOMAIN doc) \cup {k} |-> IF x = k THEN val ELSE doc[x]]

\* for k in keys: doc[k] = src[k]
Update(doc, src, keys) ==
    [x \in (DOMAIN doc) \cup keys |-> IF x \in keys THEN src[x] ELSE doc[x]]

\* dict.get(k, None) is falsy: the key is absent or holds an empty str
Falsy(doc, k) == k \notin DOMAIN doc \/ doc[k] = S(<<>>)

RECURSIVE Join(_, _)
Join(sep, strs) ==
    IF strs = <<>> THEN <<>>
    ELSE IF Len(strs) = 1 THEN Head(strs)
    ELSE Head(strs) \o sep \o Join(sep, Tail(strs))

Replace(str, old, new) == [n \in 1..Len(str) |-> IF str[n] = old THEN new ELSE str[n]]

-----------------------------------------------------------------------------
(* The files on disk that the command reads *)

WEIGHTS_NAME == "pytorch_model.bin"

ADAPTER_WEIGHTS_NAME == "pytorch_adapter.bin"

CfgBlock == [non_linearity |-> S(<<"relu">>), reduction_factor |-> S(<<"16">>)]

\* adapter_config.json of the sample adapter folders, as json.load returns it
CfgA ==
    [k \in {"type", "model_name", "config_id", "config", "hidden_size"} |->
        CASE k = "type" -> S(<<"text", "_", "task">>)
          [] k = "model_name" -> S(<<"bert", "/", "base">>)
          [] k = "config_id" -> S(<<"h1">>)
          [] k = "config" -> CfgBlock
          [] OTHER -> S(<<"768">>)]

CfgB ==
    [k \in {"config_id", "config", "hidden_size"} |->
        CASE k = "config_id" -> S(<<"h1">>)
          [] k = "config" -> CfgBlock
          [] OTHER -> S(<<"768">>)]

CfgD ==
    [k \in {"type", "model_name", "config_id"} |->
        CASE k = "type" -> S(<<"text", "_", "task">>)
          [] k = "model_name" -> S(<<"bert", "/", "base">>)
          [] OTHER -> S(<<"h1">>)]

CfgE ==
    [k \in {"type", "config_id", "config", "lang", "url"} |->
        CASE k = "type" -> S(<<"text", "_", "lang">>)
          [] k = "config_id" -> S(<<"h2">>)
          [] k = "config" -> CfgBlock
          [] k = "lang" -> S(<<"en">>)
          [] OTHER -> S(<<"e">>)]

CfgF ==
    [k \in {"type", "model_name", "config"} |->
        CASE k = "type" -> S(<<"text", "_", "task">>)
          [] k = "model_name" -> S(<<"bert", "/", "base">>)
          [] OTHER -> CfgBlock]

ConfigFile(cfg) == [name |-> "adapter_config.json", data |-> [json |-> cfg]]

WeightsFile(w) == [name |-> ADAPTER_WEIGHTS_NAME, data |-> [bin |-> w]]

HeadFile == [name |-> "head_config.json", data |-> [bin |-> "head"]]

FolderIds == {"A", "B", "C", "D", "E", "F"}

\* listdir(folder), with the content of each file
FolderFiles(f) ==
    CASE f = "A" -> <<ConfigFile(CfgA), WeightsFile("wA"), HeadFile>>
      [] f = "B" -> <<ConfigFile(CfgB), WeightsFile("wB")>>
      [] f = "C" -> <<WeightsFile("wC")>>
      [] f = "D" -> <<ConfigFile(CfgD), WeightsFile("wD")>>
      [] f = "E" -> <<ConfigFile(CfgE), WeightsFile("wE"), HeadFile>>
      [] OTHER -> <<ConfigFile(CfgF), WeightsFile("wF")>>

\* what the user submits to the prompts shown while folder f is packed
Answers(f) ==
    [type |-> IF f = "B" THEN <<"text", "_", "lang">> ELSE <<"text", "_", "task">>,
     task |-> IF f = "E" THEN <<"qa">> ELSE <<"nli">>,
     subtask |-> IF f = "E" THEN <<"squad">> ELSE <<"mnli">>,
     config_name |-> IF f = "E" THEN <<"houlsby">> ELSE <<"pfeiffer">>,
     model_name |-> IF f = "E" THEN <<"roberta">> ELSE <<"bert", "-", "base">>]

HasFile(f, name) == \E n \in 1..Len(FolderFiles(f)) : FolderFiles(f)[n].name = name

FileData(f, name) ==
    LET n == CHOOSE m \in 1..Len(FolderFiles(f)) : FolderFiles(f)[m].name = name
    IN  FolderFiles(f)[n].data

\* the YAML files a template path can name; "cache.yaml" is the file
\* download_cached(ADAPTER_TEMPLATE_YAML) leaves in the cache
TemplateKeys(path) ==
    IF path = "custom.yaml"
    THEN {"task", "subtask", "model_name", "hidden_size", "description"}
    ELSE {"type", "task", "subtask", "model_type", "model_name", "config",
          "default_version", "files", "author", "email", "url", "description"}

TemplateDoc(path) == [k \in TemplateKeys(path) |-> S(<<>>)]

IsFile(path) == path \in {"custom.yaml", "cache.yaml"}

\* str.format templates: a sequence of literal text and {field} references
UrlNone == <<>>

UrlByFile == <<[lit |-> <<"h", "/">>, ref |-> ""], [lit |-> <<>>, ref |-> "file"]>>

UrlByLang ==
    <<[lit |-> <<"h", "/">>, ref |-> ""], [lit |-> <<>>, ref |-> "lang"],
      [lit |-> <<"/">>, ref |-> ""], [lit |-> <<>>, ref |-> "file"]>>

-----------------------------------------------------------------------------
(* pack_adapter *)

\* the exception classes pack_adapter can raise, all subclasses of Exception
ExceptionClasses == {"FileNotFoundError", "NotADirectoryError", "KeyError", "TypeError"}

\* hashlib.<alg>(file_bytes).hexdigest(), taken to be collision free
Digest(alg, bytes) == [alg |-> alg, of |-> bytes]

\* the archive zipf holds after line 235: one entry per listdir(folder) name
ZipBytes(f) ==
    [n \in 1..Len(FolderFiles(f)) |->
        [arcname |-> FolderFiles(f)[n].name, data |-> FolderFiles(f)[n].data]]

\* str(value) as str.format renders a field
Str(val) == IF "v" \in DOMAIN val THEN val.v ELSE <<"{}">>

RECURSIVE Format(_, _)
Format(segs, kwargs) ==
    IF segs = <<>> THEN <<>>
    ELSE Head(segs).lit
         \o (IF Head(segs).ref = "" THEN <<>> ELSE Str(kwargs[Head(segs).ref]))
         \o Format(Tail(segs), kwargs)

Refs(segs) == {segs[n].ref : n \in 1..Len(segs)} \ {""}

\* url_template.format(file=basename(zip_name), **adapter_data): "" when it
\* returns, else the exception it raises
FormatError(segs, data) ==
    IF "file" \in DOMAIN data THEN "TypeError"
    ELSE IF \E r \in Refs(segs) : r \notin (DOMAIN data) \cup {"file"} THEN "KeyError"
    ELSE ""

AskForModelNameFromCache(typed, cache) == IF cache # <<>> THEN cache ELSE typed

\* ask_for_model_name: answers["model_name"]; the cached name is only the
\* default shown in the prompt, the answer is the text the user submits
AskForModelName(typed, cache) == typed

\* lines 205-224: adapter_data after the config and the prompts' answers
CollectFields(f, cache) ==
    LET d0 == FileData(f, "adapter_config.json").json
        ans == Answers(f)
        d1 == IF Falsy(d0, "type") THEN Put(d0, "type", S(ans.type)) ELSE d0
        d2 == Put(Put(d1, "task", S(ans.task)), "subtask", S(ans.subtask))
        d3 == Put(d2, "config_name", S(ans.config_name))
    IN  IF Falsy(d3, "model_name")
        THEN Put(d3, "model_name", S(AskForModelName(ans.model_name, cache)))
        ELSE d3

\* self._input_cache["model_name"] after lines 205-224
CacheAfter(f, cache) ==
    LET d0 == FileData(f, "adapter_config.json").json
    IN  IF Falsy(d0, "model_name") THEN AskForModelName(Answers(f).model_name, cache)
        ELSE cache

\* lines 226-229
FolderName(data) ==
    Replace(Join(<<"_">>, <<data["model_name"].v, data["task"].v,
                            data["subtask"].v, data["config_name"].v>>), "/", "-")

OverlayAllKeys(data, tpl) == {k \in DOMAIN data : k # "config"}

\* lines 252-253: the keys of adapter_data copied into the template
OverlayKeys(data, tpl) == {k \in DOMAIN data : k \in DOMAIN tpl /\ k # "config"}

OverlayMetadataFiltered(doc, md) == Update(doc, md, (DOMAIN md) \cap (DOMAIN doc))

\* lines 264-266
OverlayMetadata(doc, md) == IF md # EmptyDoc THEN Update(doc, md, DOMAIN md) ELSE doc

\* lines 252-262: the template after the explicit fields are set
Filled(f, data, tpl, file_info, version) ==
    LET t1 == Update(tpl, data, OverlayKeys(data, tpl))
        t2 == Put(t1, "files", [list |-> <<file_info>>])
        t3 == Put(t2, "default_version", S(version))
        t4 == Put(t3, "config",
                  [using |-> data["config_name"],
                   non_linearity |-> data["config"].non_linearity,
                   reduction_factor |-> data["config"].reduction_factor])
    IN  Put(t4, "prediction_head", [b |-> HasFile(f, "head_config.json")])

NoData == EmptyDoc

\* what one call of pack_adapter raises and leaves behind
Outcome(exc, nm, data, zip, yaml, cache) ==
    [ex |-> exc, name |-> nm, data |-> data, zip |-> zip, yaml |-> yaml, cache |-> cache]

\* line 244 or 246
DownloadUrl(urlt, data, nm) ==
    IF urlt # <<>>
    THEN Format(urlt, Put(data, "file", S(nm \o <<".", "zip">>)))
    ELSE <<"TODO">>

\* lines 238-247
FileInfo(version, download_url, bytes) ==
    [version |-> version, url |-> download_url,
     sha1 |-> Digest("sha1", bytes), sha256 |-> Digest("sha256", bytes)]

\* lines 238-270, the archive being written
Describe(f, data, nm, bytes, tfile, md, version, urlt, cache) ==
    IF urlt # <<>> /\ FormatError(urlt, data) # ""
    THEN Outcome(FormatError(urlt, data), nm, data, <<bytes>>, <<>>, cache)
    ELSE IF tfile = "None"
    THEN Outcome("TypeError", nm, data, <<bytes>>, <<>>, cache)
    ELSE IF "config" \notin DOMAIN data
            \/ {"non_linearity", "reduction_factor"} \ (DOMAIN data["config"]) # {}
    THEN Outcome("KeyError", nm, data, <<bytes>>, <<>>, cache)
    ELSE Outcome("", nm, data, <<bytes>>,
                 <<OverlayMetadata(
                     Filled(f, data, TemplateDoc(tfile),
                            FileInfo(version, DownloadUrl(urlt, data, nm), bytes), version),
                     md)>>,
                 cache)

\* lines 226-270, adapter_data being complete
Archive(f, data, dirState, tfile, md, version, urlt, cache) ==
    IF dirState # "dir"
    THEN Outcome("NotADirectoryError", FolderName(data), data, <<>>, <<>>, cache)
    ELSE Describe(f, data, FolderName(data), ZipBytes(f), tfile, md, version, urlt, cache)

PackAdapter(f, dirState, tfile, md, version, urlt, cache) ==
    IF ~HasFile(f, "adapter_config.json")
    THEN Outcome("FileNotFoundError", <<>>, NoData, <<>>, <<>>, cache)
    ELSE IF "config_id" \notin DOMAIN FileData(f, "adapter_config.json").json
    THEN Outcome("KeyError", <<>>, NoData, <<>>, <<>>, cache)
    ELSE Archive(f, CollectFields(f, cache), dirState, tfile, md, version, urlt,
                 CacheAfter(f, cache))

-----------------------------------------------------------------------------
(* find_models_and_adapters and run *)

\* the directories of the sample disk, in the order glob yields them
DiskDirs == <<"r", "r/a", "r/b", "r/b/x", "s", "s/x">>

Parent(d) ==
    CASE d \in {"r/a", "r/b"} -> "r"
      [] d = "r/b/x" -> "r/b"
      [] d = "s/x" -> "s"
      [] OTHER -> ""

\* join(root, "**", name) matches name in root itself and in every directory below it
RECURSIVE Under(_, _)
Under(root, d) == d = root \/ (Parent(d) # "" /\ Under(root, Parent(d)))

\* directories holding WEIGHTS_NAME
DiskModels == {"r/b", "s"}

Roots == {"r", "r/a", "r/b", "s"}

\* [dirname(w) for w in glob.glob(join(input_path, "**", name), recursive=True)]
Glob(root, holders) == SelectSeq(DiskDirs, LAMBDA d : Under(root, d) /\ d \in holders)

RECURSIVE GlobAll(_, _)
GlobAll(paths, holders) ==
    IF paths = <<>> THEN <<>>
    ELSE Glob(Head(paths), holders) \o GlobAll(Tail(paths), holders)

\* model.save_all_adapters(model_dir): the adapter folders it wrote
SaveAllAdapters(model_dir) == <<model_dir \o "/x">>

InList(x, list) == \E n \in 1..Len(list) : list[n] = x

\* lines 346-348
RECURSIVE AppendNew(_, _)
AppendNew(list, paths) ==
    IF paths = <<>> THEN list
    ELSE AppendNew(IF InList(Head(paths), list) THEN list ELSE Append(list, Head(paths)),
                   Tail(paths))

SeqsUpTo(set, n) == UNION {[1..m -> set] : m \in 0..n}

NoFiles == [k \in {} |-> <<>>]

InitPackVars ==
    /\ template_file = "None"
    /\ metadata = EmptyDoc
    /\ url_template = <<>>
    /\ i = 0
    /\ zips = NoFiles
    /\ yamls = NoFiles
    /\ log = <<>>
    /\ written = <<>>
    /\ input_cache = <<>>

\* AdapterPackCommand.__init__, before run()
InitScan ==
    /\ pc = "run"
    /\ input_paths \in SeqsUpTo(Roots, MaxRoots) \ {<<>>}
    /\ extract_from_models \in BOOLEAN
    /\ diskAdapters = {"r/a", "r/b", "r/b/x"}
    /\ models_list = <<>>
    /\ adapters_list = <<>>
    /\ mode = ""
    /\ mi = 0
    /\ template = ""
    /\ outDir = "dir"
    /\ folders = <<>>
    /\ InitPackVars

\* line 318
FindModelsAndAdapters ==
    /\ pc = "run"
    /\ models_list' = IF extract_from_models THEN GlobAll(input_paths, DiskModels) ELSE <<>>
    /\ adapters_list' = GlobAll(input_paths, diskAdapters)
    /\ pc' = "found"
    /\ UNCHANGED <<input_paths, extract_from_models, diskAdapters, mode, mi,
                   template, outDir, folders>>
    /\ UNCHANGED packVars

\* lines 324-341 and, for "no_extract", the call of line 349
ChooseMode(m) ==
    /\ pc = "found"
    /\ mode' = m
    /\ pc' = CASE m = "exit" -> "returned"
               [] m = "extract" -> "extract"
               [] OTHER -> "start"
    /\ folders' = IF m = "no_extract" THEN adapters_list ELSE folders
    /\ UNCHANGED <<input_paths, extract_from_models, diskAdapters, models_list,
                   adapters_list, mi, template, outDir>>
    /\ UNCHANGED packVars

\* lines 342-348, one model
ExtractModel ==
    /\ pc = "extract"
    /\ mi < Len(models_list)
    /\ LET saved == SaveAllAdapters(models_list[mi + 1])
       IN  /\ adapters_list' = AppendNew(adapters_list, saved)
           /\ diskAdapters' = diskAdapters \cup {saved[n] : n \in 1..Len(saved)}
    /\ mi' = mi + 1
    /\ UNCHANGED <<pc, input_paths, extract_from_models, models_list, mode,
                   template, outDir, folders>>
    /\ UNCHANGED packVars

\* line 349 after the extraction loop
CallPack ==
    /\ pc = "extract"
    /\ mi = Len(models_list)
    /\ folders' = adapters_list
    /\ pc' = "start"
    /\ UNCHANGED <<input_paths, extract_from_models, diskAdapters, models_list,
                   adapters_list, mode, mi, template, outDir>>
    /\ UNCHANGED packVars

NextScan ==
    \/ FindModelsAndAdapters
    \/ \E m \in {"extract", "no_extract", "exit"} : ChooseMode(m)
    \/ ExtractModel
    \/ CallPack

SpecScan == InitScan /\ [][NextScan]_vars

-----------------------------------------------------------------------------
(* pack_adapters_interactive *)

VERSION == <<"1">>

\* the answers ask_for_metadata can return
MetadataAnswers ==
    {[k \in {"author", "email", "url", "twitter", "github"} |->
        CASE k = "author" -> S(<<"A">>)
          [] k = "email" -> S(<<"a@x">>)
          [] k = "url" -> S(u)
          [] OTHER -> S(<<>>)] : u \in {<<>>, <<"u">>}}

Entry(kind, arg) == [kind |-> kind, arg |-> arg]

\* pack_adapters_interactive(folders, save_root) is entered
Init ==
    /\ pc = "start"
    /\ input_paths = <<>>
    /\ extract_from_models = FALSE
    /\ diskAdapters = {}
    /\ models_list = <<>>
    /\ adapters_list = <<>>
    /\ mode = "no_extract"
    /\ mi = 0
    /\ template \in {"", "missing.yaml", "custom.yaml"}
    /\ outDir \in {"absent", "uncreatable", "dir", "file"}
    /\ folders \in SeqsUpTo(FolderIds, MaxFolders)
    /\ InitPackVars

\* line 292: the specified template is not a file
TemplateNotFound ==
    /\ pc = "start"
    /\ template # ""
    /\ ~IsFile(template)
    /\ log' = Append(log, Entry("error", "template file could not be found"))
    /\ pc' = "exit"
    /\ UNCHANGED <<template, template_file, outDir, metadata, url_template,
                   folders, i, zips, yamls, written, input_cache>>
    /\ UNCHANGED scanVars

\* line 289: download_cached raises
DownloadRaises ==
    /\ pc = "start"
    /\ template = ""
    /\ pc' = "error"
    /\ UNCHANGED <<template, template_file, outDir, metadata, url_template,
                   folders, i, zips, yamls, log, written, input_cache>>
    /\ UNCHANGED scanVars

\* lines 287-294 with the template file that results, then line 297 raising
MakedirsRaises(tfile) ==
    /\ pc = "start"
    /\ \/ template = "" /\ tfile \in {"cache.yaml", "None"}
       \/ template # "" /\ IsFile(template) /\ tfile = template
    /\ outDir = "uncreatable"
    /\ template_file' = tfile
    /\ pc' = "error"
    /\ UNCHANGED <<template, outDir, metadata, url_template,
                   folders, i, zips, yamls, log, written, input_cache>>
    /\ UNCHANGED scanVars

\* lines 286-304 running through: download_cached yields the cached file, or
\* None when the template is neither fetched nor cached
Setup(tfile, answers, urlt) ==
    /\ pc = "start"
    /\ \/ template = "" /\ tfile \in {"cache.yaml", "None"}
       \/ template # "" /\ IsFile(template) /\ tfile = template
    /\ outDir # "uncreatable"
    /\ template_file' = tfile
    /\ outDir' = IF outDir = "absent" THEN "dir" ELSE outDir
    /\ metadata' = answers
    /\ url_template' = urlt
    /\ pc' = "loop"
    /\ UNCHANGED <<template, folders, i, zips, yamls, log, written, input_cache>>
    /\ UNCHANGED scanVars

CaughtOSErrorOnly(exc) == exc \in {"FileNotFoundError", "NotADirectoryError"}

\* line 311: except Exception
Caught(exc) == exc \in ExceptionClasses

\* lines 307-313: what the call of pack_adapter for folder f leaves behind
Record(f, o) ==
    /\ zips' = IF o.zip # <<>> THEN (o.name :> o.zip[1]) @@ zips ELSE zips
    /\ yamls' = IF o.yaml # <<>> THEN (o.name :> o.yaml[1]) @@ yamls ELSE yamls
    /\ input_cache' = o.cache
    /\ written' = Append(written, [folder |-> f, ex |-> o.ex, name |-> o.name,
                                   data |-> o.data, zip |-> o.zip, yaml |-> o.yaml])
    /\ log' = Append(log, Entry("adapter", <<i + 1, Len(folders), f>>))
              \o (IF o.ex = "" THEN <<Entry("created", o.name)>>
                  ELSE IF Caught(o.ex) THEN <<Entry("failed", o.ex)>>
                  ELSE <<>>)
    /\ pc' = IF o.ex = "" \/ Caught(o.ex) THEN "loop" ELSE "error"

\* lines 305-313, one iteration
PackNext ==
    /\ pc = "loop"
    /\ i < Len(folders)
    /\ Record(folders[i + 1],
              PackAdapter(folders[i + 1], outDir, template_file, metadata, VERSION,
                          url_template, input_cache))
    /\ i' = i + 1
    /\ UNCHANGED <<template, template_file, outDir, metadata, url_template, folders>>
    /\ UNCHANGED scanVars

\* line 314: print_finalization_text
Finalize ==
    /\ pc = "loop"
    /\ i = Len(folders)
    /\ log' = Append(log, Entry("finalization", "successfully packed all adapters"))
    /\ pc' = "done"
    /\ UNCHANGED <<template, template_file, outDir, metadata, url_template,
                   folders, i, zips, yamls, written, input_cache>>
    /\ UNCHANGED scanVars

Next ==
    \/ TemplateNotFound
    \/ DownloadRaises
    \/ \E tfile \in {"cache.yaml", "None", "custom.yaml"} : MakedirsRaises(tfile)
    \/ \E tfile \in {"cache.yaml", "None", "custom.yaml"}, answers \in MetadataAnswers,
          urlt \in {UrlNone, UrlByFile, UrlByLang} : Setup(tfile, answers, urlt)
    \/ PackNext
    \/ Finalize

Spec == Init /\ [][Next]_vars

-----------------------------------------------------------------------------
(* Properties *)

Failed(j) == written[j].ex # ""

\* the log holds the header of artifact j exactly once, followed by the line
\* of the given kind
Listed(j, kind) ==
    /\ Cardinality({n \in 1..Len(log) : log[n].kind = "adapter" /\ log[n].arg[1] = j}) = 1
    /\ \E n \in 1..(Len(log) - 1) :
          /\ log[n].kind = "adapter"
          /\ log[n].arg = <<j, Len(folders), folders[j]>>
          /\ log[n + 1].kind = kind

\* C1: in the batch loop a failure of pack_adapter at any stage is caught and
\* recorded against its artifact, every later artifact is still attempted,
\* and the batch always reaches its end: no failure leaves the loop (the run
\* ends in an error only before the first artifact), the loop always has a
\* next step (the guard of PackNext or of Finalize holds), every iteration is
\* recorded against its folder, and at the end every folder was attempted.
C1_FailureIsolated ==
    /\ pc = "error" => i = 0
    /\ pc \in {"loop", "done"} =>
          /\ Len(written) = i
          /\ \A j \in 1..i :
                /\ written[j].folder = folders[j]
                /\ Failed(j) => Listed(j, "failed")
    /\ pc = "loop" => i < Len(folders) \/ i = Len(folders)
    /\ pc = "done" => i = Len(folders)

\* C1 witness: a batch ended in which the first artifact failed after its
\* archive was written and the second was packed.
C1_Witness ==
    /\ pc = "done"
    /\ Len(written) = 2
    /\ written[1].ex = "KeyError" /\ written[1].zip # <<>>
    /\ written[2].ex = ""

\* C2: no partial output is left in the output directory: <name>.zip exists
\* if and only if <name>.yaml exists.
C2_NoPartialOutput == DOMAIN zips = DOMAIN yamls

\* C3: the archive and manifest written for a packed artifact are still
\* intact in the output directory after every later artifact of the batch.
C3_FirstOutputsIntact ==
    \A j \in 1..Len(written) :
        ~Failed(j) =>
            /\ zips[written[j].name] = written[j].zip[1]
            /\ yamls[written[j].name] = written[j].yaml[1]

\* C4: when the batch has finished, what was printed lists every artifact
\* exactly once, as created or as failed, and a batch with a failed artifact
\* is not reported as having packed all adapters successfully.
C4_SummaryFaithful ==
    pc = "done" =>
        /\ \A j \in 1..Len(folders) :
              IF Failed(j) THEN Listed(j, "failed") ELSE Listed(j, "created")
        /\ (\E j \in 1..Len(folders) : Failed(j)) =>
              ~\E n \in 1..Len(log) : log[n].kind = "finalization"

\* a run whose setup is fatal: the specified template is missing, no template
\* file was obtained, or no directory can exist at the output path
FatalSetup ==
    \/ template # "" /\ ~IsFile(template)
    \/ template = "" /\ template_file = "None"
    \/ outDir \in {"uncreatable", "file"}

\* C5: in a run whose setup is fatal pack_adapter is invoked for no artifact
\* and no archive or manifest is written.
C5_FatalSetupAborts ==
    FatalSetup => written = <<>> /\ zips = NoFiles /\ yamls = NoFiles

NoDuplicates(list) ==
    \A m, n \in 1..Len(list) : list[m] = list[n] => m = n

\* C6: the two lists of find_models_and_adapters are disjoint and free of
\* duplicates, and the adapter list is still free of duplicates after the
\* extraction step.
C6_ListsDisjointNoDup ==
    /\ NoDuplicates(models_list)
    /\ NoDuplicates(adapters_list)
    /\ \A m \in 1..Len(models_list) : ~InList(models_list[m], adapters_list)

\* the manifest's config block for adapter_data
ConfigBlock(data) ==
    [using |-> data["config_name"],
     non_linearity |-> data["config"].non_linearity,
     reduction_factor |-> data["config"].reduction_factor]

\* for the keys of adapter_data outside skip: a key of the template holds the
\* artifact's value in the manifest, any other key is not in the manifest;
\* and the manifest's config is the three-field block
OverlayRespectsTemplate(j, skip) ==
    /\ \A k \in (DOMAIN written[j].data) \ skip :
          IF k \in TemplateKeys(template_file)
          THEN written[j].yaml[1][k] = written[j].data[k]
          ELSE k \notin DOMAIN written[j].yaml[1]
    /\ written[j].yaml[1]["config"] = ConfigBlock(written[j].data)

\* C7 as stated: for every artifact field key other than "config" the
\* manifest takes the artifact's value if and only if the key is a top-level
\* key of the template, a key not in the template is never added, and the
\* manifest's config is the three-field block.
C7_OverlayOriginal ==
    \A j \in 1..Len(written) : ~Failed(j) => OverlayRespectsTemplate(j, {"config"})

\* C7 amended: the same for every artifact field key other than "config",
\* the keys set explicitly afterwards ("files", "default_version",
\* "prediction_head") and the keys of the session metadata.
C7_OverlayAmended ==
    \A j \in 1..Len(written) :
        ~Failed(j) =>
            OverlayRespectsTemplate(j, {"config", "files", "default_version",
                                        "prediction_head"} \cup DOMAIN metadata)

\* C7 witness: a packed artifact with a field that is in the template, a
\* field that is not, and a raw config.
C7_Witness ==
    \E j \in 1..Len(written) :
        /\ ~Failed(j)
        /\ "model_name" \in TemplateKeys(template_file)
        /\ "config_id" \in (DOMAIN written[j].data) \ TemplateKeys(template_file)
        /\ "config" \in TemplateKeys(template_file)
        /\ written[j].data["config"] # written[j].yaml[1]["config"]

\* the manifest of written[j] before the metadata is laid over it
BeforeMetadata(j) ==
    Filled(written[j].folder, written[j].data, TemplateDoc(template_file),
           FileInfo(VERSION, DownloadUrl(url_template, written[j].data, written[j].name),
                    written[j].zip[1]),
           VERSION)

\* C8: in every manifest written, every key of the session metadata holds the
\* metadata's value, whether or not the key is in the template or was set
\* earlier in the synthesis, and every other key is as the earlier steps set
\* it.
C8_MetadataWins ==
    \A j \in 1..Len(written) :
        ~Failed(j) =>
            /\ \A k \in DOMAIN metadata :
                  /\ k \in DOMAIN written[j].yaml[1]
                  /\ written[j].yaml[1][k] = metadata[k]
            /\ \A k \in (DOMAIN written[j].yaml[1]) \ DOMAIN metadata :
                  /\ k \in DOMAIN BeforeMetadata(j)
                  /\ written[j].yaml[1][k] = BeforeMetadata(j)[k]

\* C8 witness: a packed artifact whose own "url" field, a key of the
\* template, differs from the metadata's, with a metadata key that is not in
\* the template.
C8_Witness ==
    \E j \in 1..Len(written) :
        /\ ~Failed(j)
        /\ "url" \in DOMAIN written[j].data
        /\ "url" \in TemplateKeys(template_file)
        /\ written[j].data["url"] # metadata["url"]
        /\ "twitter" \notin TemplateKeys(template_file)

\* one iteration leaves the session state alone and gives the artifact the
\* name, the manifest and the error it gets when packed first in a session
IterationIsolated ==
    (pc = "loop" /\ i' = i + 1) =>
        /\ <<template, template_file, metadata, url_template>>'
              = <<template, template_file, metadata, url_template>>
        /\ written'[i + 1].name
              = PackAdapter(folders[i + 1], outDir, template_file, metadata, VERSION,
                            url_template, <<>>).name
        /\ written'[i + 1].yaml
              = PackAdapter(folders[i + 1], outDir, template_file, metadata, VERSION,
                            url_template, <<>>).yaml
        /\ written'[i + 1].ex
              = PackAdapter(folders[i + 1], outDir, template_file, metadata, VERSION,
                            url_template, <<>>).ex

C10_ManifestMatchesArchive ==
    \A nm \in (DOMAIN zips) \cap (DOMAIN yamls) :
        /\ yamls[nm]["files"].list[1].sha1 = Digest("sha1", zips[nm])
        /\ yamls[nm]["files"].list[1].sha256 = Digest("sha256", zips[nm])

====
